---- MODULE Spec2Model ----
(***************************************************************************)
(* Model of autoware::perception::tracking::MultiObjectTracker             *)
(* (src/src/perception/tracking/src/multi_object_tracker.cpp).             *)
(*                                                                         *)
(* The detection-cycle update and the vision update are modelled stage by  *)
(* stage: pc / vpc hold the position of the call inside the function body. *)
(* Track, the two associators and the TrackCreator are collaborators whose *)
(* code is not part of the translation unit; they are modelled from their  *)
(* contracts.                                                              *)
(***************************************************************************)
EXTENDS Integers, Sequences, FiniteSets, TLC

(***************************************************************************)
(* Bounds of the model.                                                    *)
(***************************************************************************)
\* the capture times of the batches are 0..MaxTime
MaxTime == 2
\* a batch holds no detection or MaxDet detections
MaxDet == 2
\* a ROI batch holds no ROI or MaxRois ROIs, the TrackCreator's buffer at
\* most MaxRois
MaxRois == 1
\* the TrackCreator makes at most MaxId tracks, with the identities 1..MaxId
MaxId == 2

(***************************************************************************)
(* Program constants.                                                      *)
(***************************************************************************)
\* AssociatorResult::UNASSIGNED: the sentinel of track_assignments.
\* Observation indices are 1..n in the model, so 0 is free for the sentinel.
UNASSIGNED == 0

\* Quaternion components are fixed-point numbers in units of 1/QScale.
QScale == 1000

\* cos(0.5 * kAngleThresh) = cos(0.05) = 0.99875..., in units of 1/100000.
CosHalfAngleThresh == 99875

\* cos(kAxisTiltThresh)^2 = cos(0.1)^2 = 0.99003..., in units of 1/1000.
CosSqAxisTiltThresh == 990

\* MultiObjectTrackerOptions: the configuration given at construction.
m_options ==
  [frame |-> "map",
   pruning_time_threshold |-> 1,
   pruning_ticks_threshold |-> 1]

(***************************************************************************)
(* Vectors and matrices (Eigen::Vector3d, Eigen::Matrix3d).                *)
(***************************************************************************)
ZeroVec == <<0, 0, 0>>

VecAdd(a, b) == <<a[1] + b[1], a[2] + b[2], a[3] + b[3]>>

Dot(a, b) == a[1] * b[1] + a[2] * b[2] + a[3] * b[3]

MatVec(m, v) == <<Dot(m[1], v), Dot(m[2], v), Dot(m[3], v)>>

Transpose(m) == [i \in 1..3 |-> [j \in 1..3 |-> m[j][i]]]

MatMul(a, b) == [i \in 1..3 |-> [j \in 1..3 |-> Dot(a[i], Transpose(b)[j])]]

\* Division of a fixed-point product by its scale, rounded to nearest.
RoundDiv(a, s) == IF a >= 0 THEN (2 * a + s) \div (2 * s)
                            ELSE 0 - ((2 * (0 - a) + s) \div (2 * s))

VecScaleDown(v, s) == <<RoundDiv(v[1], s), RoundDiv(v[2], s), RoundDiv(v[3], s)>>

MatScaleDown(m, s) == [i \in 1..3 |-> VecScaleDown(m[i], s)]

\* Eigen::Quaterniond::toRotationMatrix, entries in units of 1/QScale^2.
RotationMatrix(q) ==
  LET s2 == QScale * QScale
      xx == q.x * q.x  yy == q.y * q.y  zz == q.z * q.z
      xy == q.x * q.y  xz == q.x * q.z  yz == q.y * q.z
      wx == q.w * q.x  wy == q.w * q.y  wz == q.w * q.z
  IN  << <<s2 - 2 * (yy + zz), 2 * (xy - wz), 2 * (xz + wy)>>,
         <<2 * (xy + wz), s2 - 2 * (xx + zz), 2 * (yz - wx)>>,
         <<2 * (xz - wy), 2 * (yz + wx), s2 - 2 * (xx + yy)>> >>

\* rot_d * v
Rotate(q, v) == VecScaleDown(MatVec(RotationMatrix(q), v), QScale * QScale)

\* tf__tracking__detection * v
RigidTransform(pose, v) == VecAdd(Rotate(pose.orientation, v), pose.position)

\* rot_d * cov * rot_d.transpose()
RotateCovariance(q, cov) ==
  LET R == RotationMatrix(q)
      s2 == QScale * QScale
  IN  MatScaleDown(MatMul(MatScaleDown(MatMul(R, cov), s2), Transpose(R)), s2)

(***************************************************************************)
(* is_gravity_aligned: the rotation angle is small (w >= cos(0.05)) or the *)
(* rotation axis is within 0.1 rad of the z axis.  u_z < cos(0.1) is       *)
(* compared on the squares; a zero vector part gives u_z = 0/0 = NaN, for  *)
(* which the comparison is false.                                          *)
(***************************************************************************)
is_gravity_aligned(quat) ==
  IF quat.w * 100 < CosHalfAngleThresh
    THEN LET n2 == quat.x * quat.x + quat.y * quat.y + quat.z * quat.z
         IN  IF n2 # 0 /\ quat.z * quat.z * 1000 < CosSqAxisTiltThresh * n2
               THEN FALSE
               ELSE TRUE
    ELSE TRUE

\* validate without its first check.
validate_no_time_check(dets, odom, last_update) ==
  IF dets.header.frame_id # odom.child_frame_id THEN "DetectionFrameMismatch"
  ELSE IF odom.header.frame_id # m_options.frame THEN "TrackerFrameMismatch"
  ELSE IF ~is_gravity_aligned(odom.pose.orientation) THEN "FrameNotGravityAligned"
  ELSE "Ok"

\* validate with the two frame checks in the other order.
validate_tracker_frame_first(dets, odom, last_update) ==
  IF dets.header.stamp < last_update THEN "WentBackInTime"
  ELSE IF odom.header.frame_id # m_options.frame THEN "TrackerFrameMismatch"
  ELSE IF dets.header.frame_id # odom.child_frame_id THEN "DetectionFrameMismatch"
  ELSE IF ~is_gravity_aligned(odom.pose.orientation) THEN "FrameNotGravityAligned"
  ELSE "Ok"

\* validate with the orientation checked before the tracking frame.
validate_gravity_first(dets, odom, last_update) ==
  IF dets.header.stamp < last_update THEN "WentBackInTime"
  ELSE IF dets.header.frame_id # odom.child_frame_id THEN "DetectionFrameMismatch"
  ELSE IF ~is_gravity_aligned(odom.pose.orientation) THEN "FrameNotGravityAligned"
  ELSE IF odom.header.frame_id # m_options.frame THEN "TrackerFrameMismatch"
  ELSE "Ok"

\* validate rejecting a batch captured at the time of the last update.
validate_equal_time_rejected(dets, odom, last_update) ==
  IF dets.header.stamp <= last_update THEN "WentBackInTime"
  ELSE IF dets.header.frame_id # odom.child_frame_id THEN "DetectionFrameMismatch"
  ELSE IF odom.header.frame_id # m_options.frame THEN "TrackerFrameMismatch"
  ELSE IF ~is_gravity_aligned(odom.pose.orientation) THEN "FrameNotGravityAligned"
  ELSE "Ok"

\* validate with the time checked after the frames and the orientation.
validate_time_check_last(dets, odom, last_update) ==
  IF dets.header.frame_id # odom.child_frame_id THEN "DetectionFrameMismatch"
  ELSE IF odom.header.frame_id # m_options.frame THEN "TrackerFrameMismatch"
  ELSE IF ~is_gravity_aligned(odom.pose.orientation) THEN "FrameNotGravityAligned"
  ELSE IF dets.header.stamp < last_update THEN "WentBackInTime"
  ELSE "Ok"

(***************************************************************************)
(* MultiObjectTracker::validate: the status of the first violated check.   *)
(***************************************************************************)
validate(dets, odom, last_update) ==
  LET target_time == dets.header.stamp
  IN  IF target_time < last_update THEN "WentBackInTime"
      ELSE IF dets.header.frame_id # odom.child_frame_id THEN "DetectionFrameMismatch"
      ELSE IF odom.header.frame_id # m_options.frame THEN "TrackerFrameMismatch"
      ELSE IF ~is_gravity_aligned(odom.pose.orientation) THEN "FrameNotGravityAligned"
      ELSE "Ok"

(***************************************************************************)
(* MultiObjectTracker::transform: the body of the loop over the objects,   *)
(* and the whole batch.                                                    *)
(***************************************************************************)
\* The loop body adding the transformed twist to the one it finds.
TransformDetection_twist_accumulated(d, odom) ==
  [d EXCEPT
     !.polygon = [i \in 1..Len(d.polygon) |-> RigidTransform(odom.pose, d.polygon[i])],
     !.centroid_position = RigidTransform(odom.pose, d.centroid_position),
     !.position_covariance =
        IF d.has_position_covariance
          THEN RotateCovariance(odom.pose.orientation, d.position_covariance)
          ELSE d.position_covariance,
     !.linear =
        IF d.has_twist
          THEN VecAdd(d.linear,
                      VecAdd(odom.twist_linear, Rotate(odom.pose.orientation, d.linear)))
          ELSE d.linear]

\* The loop body transforming the covariance and the twist whatever the flags.
TransformDetection_flags_ignored(d, odom) ==
  [d EXCEPT
     !.polygon = [i \in 1..Len(d.polygon) |-> RigidTransform(odom.pose, d.polygon[i])],
     !.centroid_position = RigidTransform(odom.pose, d.centroid_position),
     !.position_covariance = RotateCovariance(odom.pose.orientation, d.position_covariance),
     !.linear = VecAdd(odom.twist_linear, Rotate(odom.pose.orientation, d.linear))]

TransformDetection(d, odom) ==
  [d EXCEPT
     !.polygon = [i \in 1..Len(d.polygon) |-> RigidTransform(odom.pose, d.polygon[i])],
     !.centroid_position = RigidTransform(odom.pose, d.centroid_position),
     !.position_covariance =
        IF d.has_position_covariance
          THEN RotateCovariance(odom.pose.orientation, d.position_covariance)
          ELSE d.position_covariance,
     !.linear =
        IF d.has_twist
          THEN VecAdd(odom.twist_linear, Rotate(odom.pose.orientation, d.linear))
          ELSE d.linear]

transform(dets, odom) ==
  [header |-> [dets.header EXCEPT !.frame_id = m_options.frame],
   objects |-> [i \in 1..Len(dets.objects) |-> TransformDetection(dets.objects[i], odom)]]

(***************************************************************************)
(* Track (TrackedObject), from its contract: the kinematic state is the    *)
(* centroid, the staleness counters are the time and the number of cycles  *)
(* since the last update.                                                  *)
(***************************************************************************)
TrackPredict(t, dt) ==
  [t EXCEPT !.time_since_last_seen = @ + dt]

TrackUpdate(t, detection) ==
  [t EXCEPT !.centroid = detection.centroid_position,
            !.time_since_last_seen = 0,
            !.ticks_since_last_seen = 0]

TrackUpdateClassification(t, classifications) ==
  [t EXCEPT !.classification = classifications]

TrackNoUpdate(t) ==
  [t EXCEPT !.ticks_since_last_seen = @ + 1]

should_be_removed(t, time_threshold, ticks_threshold) ==
  \/ t.time_since_last_seen > time_threshold
  \/ t.ticks_since_last_seen > ticks_threshold

TrackMsg(t) ==
  [object_id |-> t.id, centroid |-> t.centroid, classification |-> t.classification]

(***************************************************************************)
(* The inputs of the calls.                                                *)
(***************************************************************************)
IdentityQuat == [w |-> QScale, x |-> 0, y |-> 0, z |-> 0]

\* A rotation of pi about the z axis (pure yaw).
YawQuat == [w |-> 0, x |-> 0, y |-> 0, z |-> QScale]

\* A rotation of pi about the y axis (pure pitch).
PitchQuat == [w |-> 0, x |-> 0, y |-> QScale, z |-> 0]

Covariance == << <<2, 1, 0>>, <<1, 3, 0>>, <<0, 0, 1>> >>

\* The i-th object of a batch: odd ones carry a covariance, even ones a twist
\* and a second polygon point; all have their centroid at the same place.
DetectionSample(i) ==
  IF i % 2 = 1
    THEN [centroid_position |-> <<1, 1, 0>>,
          polygon |-> << <<1, 1, 0>> >>,
          has_position_covariance |-> TRUE,
          position_covariance |-> Covariance,
          has_twist |-> FALSE,
          linear |-> <<1, 0, 0>>,
          angular |-> <<0, 0, 1>>]
    ELSE [centroid_position |-> <<1, 1, 0>>,
          polygon |-> << <<2, 0, 0>>, <<1, 1, 0>> >>,
          has_position_covariance |-> FALSE,
          position_covariance |-> Covariance,
          has_twist |-> TRUE,
          linear |-> <<1, 2, 0>>,
          angular |-> <<0, 0, 1>>]

DetectionBatches ==
  {[header |-> [stamp |-> t, frame_id |-> "base_link"],
    objects |-> [i \in 1..n |-> DetectionSample(i)]] :
     t \in 0..MaxTime, n \in {0, MaxDet}}

Poses ==
  {[position |-> <<3, 1, 0>>, orientation |-> YawQuat],
   [position |-> ZeroVec, orientation |-> PitchQuat]}

Odometries ==
  {[header |-> [frame_id |-> f],
    child_frame_id |-> c,
    pose |-> p,
    twist_linear |-> <<1, 0, 0>>] :
     f \in {"map", "odom"}, c \in {"base_link", "lidar"}, p \in Poses}

RoiBatches ==
  {[rois |-> [i \in 1..n |-> [classifications |-> "car"]]] : n \in {0, MaxRois}}

(***************************************************************************)
(* AssociatorResult, from the associator contract: track_assignments maps  *)
(* every track to an observation or to UNASSIGNED, no observation is       *)
(* assigned twice, and the two unassigned sets are the complements.        *)
(***************************************************************************)
AssignedObservations(ta) == {ta[i] : i \in 1..Len(ta)} \ {UNASSIGNED}

AssociatorResults(n_tracks, n_obs) ==
  {[track_assignments |-> ta,
    unassigned_track_indices |-> {i \in 1..n_tracks : ta[i] = UNASSIGNED},
    unassigned_detection_indices |-> (1..n_obs) \ AssignedObservations(ta),
    had_errors |-> e] :
     ta \in {f \in [1..n_tracks -> (1..n_obs) \cup {UNASSIGNED}] :
               \A i, j \in 1..n_tracks :
                  (i # j /\ f[i] # UNASSIGNED) => f[i] # f[j]},
     e \in BOOLEAN}

NoAssociation ==
  [track_assignments |-> <<>>,
   unassigned_track_indices |-> {},
   unassigned_detection_indices |-> {},
   had_errors |-> FALSE]

(***************************************************************************)
(* The state of the tracker, of the calls in progress, and the record of   *)
(* what the calls did.                                                     *)
(***************************************************************************)
VARIABLES
  m_objects,        \* the live track collection
  m_last_update,    \* the time of the last accepted detection cycle
  m_track_creator,  \* the TrackCreator: its buffer and the next track identity
  pc,               \* position of the detection-cycle update
  detections,       \* its by-value argument, transformed in place
  odometry,         \* its argument detection_frame_odometry
  association,      \* its local AssociatorResult
  result,           \* its TrackerUpdateResult
  vpc,              \* position of the vision update
  rois,             \* its argument
  vassociation,     \* its local AssociatorResult
  pre,              \* the tracker and the arguments at the entry of the call, and
                    \* whether the call is rejected like the one before it
  stages,           \* the stages the call in progress went through
  trace,            \* the Track methods the call in progress invoked
  rejecting,        \* the last call was a rejected detection-cycle update
  base,             \* the tracker before the first of the rejected calls in a row
  before_pruning,   \* the collection the call in progress handed to its pruning
  vision            \* of a vision update that may overlap a detection cycle: the
                    \* collection its association was computed on, the one its
                    \* loop found and left, and where the detection cycle was
                    \* at these two moments

vars ==
  <<m_objects, m_last_update, m_track_creator, pc, detections, odometry,
    association, result, vpc, rois, vassociation, pre, stages, trace,
    rejecting, base, before_pruning, vision>>

TrackerState ==
  [m_objects |-> m_objects,
   m_last_update |-> m_last_update,
   m_track_creator |-> m_track_creator]

NoDetections == [header |-> [stamp |-> 0, frame_id |-> ""], objects |-> <<>>]

NoOdometry ==
  [header |-> [frame_id |-> ""], child_frame_id |-> "",
   pose |-> [position |-> ZeroVec, orientation |-> IdentityQuat],
   twist_linear |-> ZeroVec]

NoRois == [rois |-> <<>>]

EmptyCreator == [detections |-> <<>>, rois |-> <<>>, next_id |-> 1]

NoTracker ==
  [m_objects |-> <<>>, m_last_update |-> 0, m_track_creator |-> EmptyCreator]

NoPre ==
  [call |-> "none", tracker |-> NoTracker, detections |-> NoDetections, rois |-> NoRois,
   again |-> FALSE]

NoVision ==
  [entry |-> <<>>, entry_pc |-> "", applied |-> FALSE, apply_pc |-> "",
   before |-> <<>>, after |-> <<>>]

Event(op, id, arg) == [op |-> op, id |-> id, arg |-> arg]

Indices(S, n) == SelectSeq([i \in 1..n |-> i], LAMBDA i : i \in S)

(***************************************************************************)
(* The loops of the two update functions.  Each returns the collection and *)
(* the trace after the loop.                                               *)
(***************************************************************************)
\* lines 103-105
PredictLoop(objs, tr, dt) ==
  [objects |-> [i \in 1..Len(objs) |-> TrackPredict(objs[i], dt)],
   trace |-> tr \o [i \in 1..Len(objs) |-> Event("predict", objs[i].id, dt)]]

\* The first loop, leaving the tracks alone when the associator had errors.
UpdateLoop_skip_on_error(objs, tr, assoc, dets) ==
  IF assoc.had_errors
    THEN [objects |-> objs, trace |-> tr]
    ELSE [objects |->
            [track_idx \in 1..Len(objs) |->
               IF assoc.track_assignments[track_idx] = UNASSIGNED
                 THEN objs[track_idx]
                 ELSE TrackUpdate(objs[track_idx],
                                  dets.objects[assoc.track_assignments[track_idx]])],
          trace |->
            tr \o [k \in 1..Len(Indices({i \in 1..Len(objs) :
                                    assoc.track_assignments[i] # UNASSIGNED}, Len(objs))) |->
                     Event("update",
                           objs[Indices({i \in 1..Len(objs) :
                              assoc.track_assignments[i] # UNASSIGNED}, Len(objs))[k]].id,
                           assoc.track_assignments[Indices({i \in 1..Len(objs) :
                              assoc.track_assignments[i] # UNASSIGNED}, Len(objs))[k]])]]

\* lines 119-126
UpdateLoop(objs, tr, assoc, dets) ==
  LET assigned == Indices({i \in 1..Len(objs) : assoc.track_assignments[i] # UNASSIGNED},
                          Len(objs))
  IN  [objects |->
         [track_idx \in 1..Len(objs) |->
            LET detection_idx == assoc.track_assignments[track_idx]
            IN  IF detection_idx = UNASSIGNED
                  THEN objs[track_idx]
                  ELSE TrackUpdate(objs[track_idx], dets.objects[detection_idx])],
       trace |->
         tr \o [k \in 1..Len(assigned) |->
                  Event("update", objs[assigned[k]].id,
                        assoc.track_assignments[assigned[k]])]]

\* The second loop, run over every track instead of the unassigned ones.
NoUpdateLoop_all(objs, tr, assoc) ==
  [objects |-> [track_idx \in 1..Len(objs) |-> TrackNoUpdate(objs[track_idx])],
   trace |-> tr \o [k \in 1..Len(objs) |-> Event("no_update", objs[k].id, 0)]]

\* lines 127-129
NoUpdateLoop(objs, tr, assoc) ==
  LET unassigned == Indices(assoc.unassigned_track_indices, Len(objs))
  IN  [objects |->
         [track_idx \in 1..Len(objs) |->
            IF track_idx \in assoc.unassigned_track_indices
              THEN TrackNoUpdate(objs[track_idx])
              ELSE objs[track_idx]],
       trace |->
         tr \o [k \in 1..Len(unassigned) |->
                  Event("no_update", objs[unassigned[k]].id, 0)]]

\* The loop of the vision update, classifying every track with the first ROI.
VisionUpdateLoop_all(objs, tr, assoc, r) ==
  [objects |->
     [i \in 1..Len(objs) |->
        IF Len(r.rois) > 0
          THEN TrackUpdateClassification(objs[i], r.rois[1].classifications)
          ELSE objs[i]],
   trace |->
     tr \o [k \in 1..(IF Len(r.rois) > 0 THEN Len(objs) ELSE 0) |->
              Event("update_classification", objs[k].id, 1)]]

\* The loop of the vision update giving no track a classification.
VisionUpdateLoop_none(objs, tr, assoc, r) ==
  [objects |-> objs, trace |-> tr]

\* lines 171-176
VisionUpdateLoop(objs, tr, assoc, r) ==
  LET assigned == Indices({i \in 1..Len(objs) : assoc.track_assignments[i] # UNASSIGNED},
                          Len(objs))
  IN  [objects |->
         [i \in 1..Len(objs) |->
            LET maybe_roi_idx == assoc.track_assignments[i]
            IN  IF maybe_roi_idx # UNASSIGNED
                  THEN TrackUpdateClassification(objs[i], r.rois[maybe_roi_idx].classifications)
                  ELSE objs[i]],
       trace |->
         tr \o [k \in 1..Len(assigned) |->
                  Event("update_classification", objs[assigned[k]].id,
                        assoc.track_assignments[assigned[k]])]]

(***************************************************************************)
(* TrackCreator, from its contract: add_objects appends the unassigned     *)
(* observations to the buffer; create_tracks makes tracks of some of the   *)
(* buffered detections (the chosen ones), each with a new identity, and    *)
(* clears the buffer.                                                      *)
(***************************************************************************)
add_objects_detections(creator, dets, assoc) ==
  LET idx == Indices(assoc.unassigned_detection_indices, Len(dets.objects))
  IN  [creator EXCEPT
         !.detections = @ \o [k \in 1..Len(idx) |-> dets.objects[idx[k]]]]

add_objects_rois(creator, r, assoc) ==
  LET idx == Indices(assoc.unassigned_detection_indices, Len(r.rois))
  IN  [creator EXCEPT !.rois = @ \o [k \in 1..Len(idx) |-> r.rois[idx[k]]]]

NewTrack(id, detection) ==
  [id |-> id,
   centroid |-> detection.centroid_position,
   classification |-> "unknown",
   time_since_last_seen |-> 0,
   ticks_since_last_seen |-> 0]

create_tracks(creator, chosen) ==
  LET idx == Indices(chosen, Len(creator.detections))
  IN  [tracks |-> [k \in 1..Len(idx) |->
                     NewTrack(creator.next_id + k - 1, creator.detections[idx[k]])],
       creator |-> [detections |-> <<>>, rois |-> <<>>,
                    next_id |-> creator.next_id + Len(idx)]]

\* update without its pruning.
Prune_none(objs) == objs

\* std::remove_if without the erase of line 152: the tracks that stay are
\* moved to the front and the collection keeps its length.
Prune_without_erase(objs) ==
  [i \in 1..Len(objs) |->
     IF i <= Len(SelectSeq(objs, LAMBDA object :
                  ~should_be_removed(object, m_options.pruning_time_threshold,
                                     m_options.pruning_ticks_threshold)))
       THEN SelectSeq(objs, LAMBDA object :
              ~should_be_removed(object, m_options.pruning_time_threshold,
                                 m_options.pruning_ticks_threshold))[i]
       ELSE objs[i]]

\* lines 146-152: std::remove_if keeps the order of the tracks that stay.
Prune(objs) ==
  SelectSeq(objs, LAMBDA object :
    ~should_be_removed(object, m_options.pruning_time_threshold,
                       m_options.pruning_ticks_threshold))

\* convert_to_msg filling the list from the back.
convert_to_msg_reversed(objs, stamp) ==
  [header |-> [stamp |-> stamp, frame_id |-> m_options.frame],
   objects |-> [i \in 1..Len(objs) |-> TrackMsg(objs[Len(objs) + 1 - i])]]

\* lines 254-265
convert_to_msg(objs, stamp) ==
  [header |-> [stamp |-> stamp, frame_id |-> m_options.frame],
   objects |-> [i \in 1..Len(objs) |-> TrackMsg(objs[i])]]

(***************************************************************************)
(* The control flow of update(DetectedObjectsMsg, Odometry): where the     *)
(* call goes after validate, and the order of the stages after it.         *)
(***************************************************************************)
\* update without the early return of line 89.
AfterValidate_no_return(status) == "transform"

\* lines 88-90
AfterValidate(status) == IF status # "Ok" THEN "done" ELSE "transform"

\* update with the association computed before the prediction.
StageAfter_associate_first(stage) ==
  CASE stage = "transform" -> "associate"
    [] stage = "associate" -> "predict"
    [] stage = "predict" -> "update"
    [] stage = "update" -> "create"
    [] stage = "create" -> "prune"
    [] stage = "prune" -> "build"
    [] stage = "build" -> "done"

\* update without the block of lines 134-141.
StageAfter_no_create(stage) ==
  CASE stage = "transform" -> "predict"
    [] stage = "predict" -> "associate"
    [] stage = "associate" -> "update"
    [] stage = "update" -> "prune"
    [] stage = "create" -> "prune"
    [] stage = "prune" -> "build"
    [] stage = "build" -> "done"

\* update with the tracks updated after the creation and the pruning.
StageAfter_update_last(stage) ==
  CASE stage = "transform" -> "predict"
    [] stage = "predict" -> "associate"
    [] stage = "associate" -> "create"
    [] stage = "create" -> "prune"
    [] stage = "prune" -> "update"
    [] stage = "update" -> "build"
    [] stage = "build" -> "done"

\* update with the pruning before the block of lines 134-141.
StageAfter_prune_before_create(stage) ==
  CASE stage = "transform" -> "predict"
    [] stage = "predict" -> "associate"
    [] stage = "associate" -> "update"
    [] stage = "update" -> "prune"
    [] stage = "prune" -> "create"
    [] stage = "create" -> "build"
    [] stage = "build" -> "done"

\* lines 95-162
StageAfter(stage) ==
  CASE stage = "transform" -> "predict"
    [] stage = "predict" -> "associate"
    [] stage = "associate" -> "update"
    [] stage = "update" -> "create"
    [] stage = "create" -> "prune"
    [] stage = "prune" -> "build"
    [] stage = "build" -> "done"

\* update keeping the status the association left.
FinalStatus_kept(status) == status

\* line 159: the status of a call that reaches the end.
FinalStatus(status) == "Ok"

(***************************************************************************)
(* Init: the tracker after construction, no call in progress.              *)
(***************************************************************************)
Init ==
  /\ m_objects = <<>>
  /\ m_last_update = 0
  /\ m_track_creator = EmptyCreator
  /\ pc = "idle"
  /\ detections = NoDetections
  /\ odometry = NoOdometry
  /\ association = NoAssociation
  /\ result = [status |-> "None", objects |-> <<>>]
  /\ vpc = "idle"
  /\ rois = NoRois
  /\ vassociation = NoAssociation
  /\ pre = NoPre
  /\ stages = <<>>
  /\ trace = <<>>
  /\ rejecting = FALSE
  /\ base = NoTracker
  /\ before_pruning = <<>>
  /\ vision = NoVision

(***************************************************************************)
(* update(DetectedObjectsMsg, Odometry), lines 82-163.                     *)
(***************************************************************************)
\* lines 86-90: validate, and return the status when it is not Ok.
UpdateCall ==
  /\ pc = "idle"
  /\ vpc = "idle"
  /\ \E dets \in DetectionBatches, odom \in Odometries :
        LET status == validate(dets, odom, m_last_update)
        IN  /\ detections' = dets
            /\ odometry' = odom
            /\ pre' = [call |-> "detections", tracker |-> TrackerState,
                       detections |-> dets, rois |-> NoRois,
                       again |-> (rejecting /\ status # "Ok")]
            /\ result' = [status |-> status, objects |-> <<>>]
            /\ pc' = AfterValidate(status)
            /\ rejecting' = (status # "Ok")
            /\ base' = IF status = "Ok" THEN NoTracker
                       ELSE IF ~rejecting THEN TrackerState ELSE base
  /\ association' = NoAssociation
  /\ stages' = <<"validate">>
  /\ trace' = <<>>
  /\ UNCHANGED <<m_objects, m_last_update, m_track_creator, vpc, rois, vassociation, before_pruning, vision>>

\* line 95
Transform ==
  /\ pc = "transform"
  /\ detections' = transform(detections, odometry)
  /\ stages' = Append(stages, "transform")
  /\ pc' = StageAfter(pc)
  /\ UNCHANGED <<m_objects, m_last_update, m_track_creator, odometry, association,
                 result, vpc, rois, vassociation, pre, trace, rejecting, base, before_pruning, vision>>

\* lines 101-105
Predict ==
  /\ pc = "predict"
  /\ LET target_time == detections.header.stamp
         dt == target_time - m_last_update
         loop == PredictLoop(m_objects, trace, dt)
     IN  /\ m_objects' = loop.objects
         /\ trace' = loop.trace
  /\ stages' = Append(stages, "predict")
  /\ pc' = StageAfter(pc)
  /\ UNCHANGED <<m_last_update, m_track_creator, detections, odometry, association,
                 result, vpc, rois, vassociation, pre, rejecting, base, before_pruning, vision>>

\* lines 110-114
Associate ==
  /\ pc = "associate"
  /\ \E a \in AssociatorResults(Len(m_objects), Len(detections.objects)) :
        /\ association' = a
        /\ result' = IF a.had_errors
                       THEN [result EXCEPT !.status = "InvalidShape"]
                       ELSE result
  /\ stages' = Append(stages, "associate")
  /\ trace' = Append(trace, Event("assign", 0, 0))
  /\ pc' = StageAfter(pc)
  /\ UNCHANGED <<m_objects, m_last_update, m_track_creator, detections, odometry,
                 vpc, rois, vassociation, pre, rejecting, base, before_pruning, vision>>

\* lines 119-129
UpdateTracks ==
  /\ pc = "update"
  /\ LET first == UpdateLoop(m_objects, trace, association, detections)
         second == NoUpdateLoop(first.objects, first.trace, association)
     IN  /\ m_objects' = second.objects
         /\ trace' = second.trace
  /\ stages' = Append(stages, "update")
  /\ pc' = StageAfter(pc)
  /\ UNCHANGED <<m_last_update, m_track_creator, detections, odometry, association,
                 result, vpc, rois, vassociation, pre, rejecting, base, before_pruning, vision>>

\* lines 134-141
CreateTracks ==
  /\ pc = "create"
  /\ LET added == add_objects_detections(m_track_creator, detections, association)
     IN  \E chosen \in SUBSET (1..Len(added.detections)) :
           LET ret == create_tracks(added, chosen)
           IN  /\ ret.creator.next_id <= MaxId + 1
               /\ m_track_creator' = ret.creator
               /\ m_objects' = m_objects \o ret.tracks
               /\ trace' = trace \o <<Event("add_objects", 0, Len(added.detections)),
                                       Event("create_tracks", 0, Len(ret.tracks))>>
  /\ stages' = Append(stages, "create")
  /\ pc' = StageAfter(pc)
  /\ UNCHANGED <<m_last_update, detections, odometry, association,
                 result, vpc, rois, vassociation, pre, rejecting, base, before_pruning, vision>>

\* lines 146-152
PruneTracks ==
  /\ pc = "prune"
  /\ m_objects' = Prune(m_objects)
  /\ before_pruning' = m_objects
  /\ stages' = Append(stages, "prune")
  /\ pc' = StageAfter(pc)
  /\ UNCHANGED <<m_last_update, m_track_creator, detections, odometry, association,
                 result, vpc, rois, vassociation, pre, trace, rejecting, base, vision>>

\* lines 157-160
BuildResult ==
  /\ pc = "build"
  /\ result' = [status |-> FinalStatus(result.status),
                objects |-> <<convert_to_msg(m_objects, detections.header.stamp)>>]
  /\ m_last_update' = detections.header.stamp
  /\ stages' = stages \o <<"serialize", "advance">>
  /\ pc' = StageAfter(pc)
  /\ UNCHANGED <<m_objects, m_track_creator, detections, odometry, association,
                 vpc, rois, vassociation, pre, trace, rejecting, base, before_pruning, vision>>

\* lines 89 and 162: the call returns; its arguments and locals are gone, and
\* the result is the caller's.
Return ==
  /\ pc = "done"
  /\ pc' = "idle"
  /\ detections' = NoDetections
  /\ odometry' = NoOdometry
  /\ association' = NoAssociation
  /\ pre' = NoPre
  /\ stages' = <<>>
  /\ trace' = <<>>
  /\ before_pruning' = <<>>
  /\ result' = [status |-> "None", objects |-> <<>>]
  /\ UNCHANGED <<m_objects, m_last_update, m_track_creator, vpc, rois,
                 vassociation, rejecting, base, vision>>

(***************************************************************************)
(* update(ClassifiedRoiArrayMsg, Transform), lines 165-178.                *)
(***************************************************************************)
\* line 169
VisionAssign ==
  /\ vpc = "idle"
  /\ pc = "idle"
  /\ \E r \in RoiBatches :
        /\ Len(m_track_creator.rois) + Len(r.rois) <= MaxRois
        /\ rois' = r
        /\ pre' = [call |-> "rois", tracker |-> TrackerState,
                   detections |-> NoDetections, rois |-> r, again |-> FALSE]
        /\ \E a \in AssociatorResults(Len(m_objects), Len(r.rois)) :
              vassociation' = a
  /\ stages' = <<"associate">>
  /\ trace' = <<Event("assign", 0, 0)>>
  /\ vpc' = "update"
  /\ rejecting' = FALSE
  /\ base' = NoTracker
  /\ UNCHANGED <<m_objects, m_last_update, m_track_creator, pc, detections, odometry,
                 association, result, before_pruning, vision>>

\* lines 171-176
VisionUpdateTracks ==
  /\ vpc = "update"
  /\ LET loop == VisionUpdateLoop(m_objects, trace, vassociation, rois)
     IN  /\ m_objects' = loop.objects
         /\ trace' = loop.trace
  /\ stages' = Append(stages, "update")
  /\ vpc' = "add"
  /\ UNCHANGED <<m_last_update, m_track_creator, pc, detections, odometry, association,
                 result, rois, vassociation, pre, rejecting, base, before_pruning, vision>>

\* line 177
VisionAddObjects ==
  /\ vpc = "add"
  /\ m_track_creator' = add_objects_rois(m_track_creator, rois, vassociation)
  /\ stages' = Append(stages, "add_objects")
  /\ trace' = Append(trace, Event("add_objects", 0, Len(rois.rois)))
  /\ vpc' = "done"
  /\ UNCHANGED <<m_objects, m_last_update, pc, detections, odometry, association,
                 result, rois, vassociation, pre, rejecting, base, before_pruning, vision>>

\* line 178
VisionReturn ==
  /\ vpc = "done"
  /\ vpc' = "idle"
  /\ rois' = NoRois
  /\ vassociation' = NoAssociation
  /\ pre' = NoPre
  /\ stages' = <<>>
  /\ trace' = <<>>
  /\ before_pruning' = <<>>
  /\ UNCHANGED <<m_objects, m_last_update, m_track_creator, pc, detections, odometry,
                 association, result, rejecting, base, vision>>

Next ==
  \/ UpdateCall
  \/ Transform
  \/ Predict
  \/ Associate
  \/ UpdateTracks
  \/ CreateTracks
  \/ PruneTracks
  \/ BuildResult
  \/ Return
  \/ VisionAssign
  \/ VisionUpdateTracks
  \/ VisionAddObjects
  \/ VisionReturn

Spec == Init /\ [][Next]_vars

(***************************************************************************)
(* transform on its own: the call of line 95 for every batch and odometry  *)
(* of a set that validate lets through.                                    *)
(***************************************************************************)
\* A rotation of pi/2 about the z axis.
QuarterYawQuat == [w |-> 707, x |-> 0, y |-> 0, z |-> 707]

\* The objects of DetectionSample with every combination of the two flags.
TransformDetections ==
  {[DetectionSample(i) EXCEPT !.has_position_covariance = c, !.has_twist = t] :
     i \in 1..2, c \in BOOLEAN, t \in BOOLEAN}

TransformBatches ==
  {[header |-> [stamp |-> t, frame_id |-> "base_link"], objects |-> objs] :
     t \in 0..MaxTime,
     objs \in UNION {[1..n -> TransformDetections] : n \in 0..MaxDet}}

TransformOdometries ==
  {[header |-> [frame_id |-> m_options.frame],
    child_frame_id |-> "base_link",
    pose |-> [position |-> p, orientation |-> q],
    twist_linear |-> v] :
     p \in {ZeroVec, <<3, 1, 0>>},
     q \in {IdentityQuat, YawQuat, QuarterYawQuat},
     v \in {ZeroVec, <<1, 0, 0>>}}

\* Zero translation, identity rotation, zero linear velocity.
IdentityOdometry ==
  [header |-> [frame_id |-> m_options.frame],
   child_frame_id |-> "base_link",
   pose |-> [position |-> ZeroVec, orientation |-> IdentityQuat],
   twist_linear |-> ZeroVec]

\* update at line 95, on a tracker after construction.
TransformInit ==
  /\ m_objects = <<>>
  /\ m_last_update = 0
  /\ m_track_creator = EmptyCreator
  /\ pc = "transform"
  /\ detections \in TransformBatches
  /\ odometry \in TransformOdometries
  /\ validate(detections, odometry, m_last_update) = "Ok"
  /\ association = NoAssociation
  /\ result = [status |-> "Ok", objects |-> <<>>]
  /\ vpc = "idle"
  /\ rois = NoRois
  /\ vassociation = NoAssociation
  /\ pre = [call |-> "transform", tracker |-> NoTracker, detections |-> detections,
            rois |-> NoRois, again |-> FALSE]
  /\ stages = <<"validate">>
  /\ trace = <<>>
  /\ rejecting = FALSE
  /\ base = NoTracker
  /\ before_pruning = <<>>
  /\ vision = NoVision

TransformNext == Transform

TransformSpec == TransformInit /\ [][TransformNext]_vars

(***************************************************************************)
(* validate on its own, for odometries whose orientation is a rotation     *)
(* about one axis: the gate of lines 86-90 on a tracker after              *)
(* construction.                                                           *)
(***************************************************************************)
\* <<cos(a/2), sin(a/2)>> in units of 1/QScale for the rotation angles a of
\* 0, 0.0894 (the last on the grid below 0.1), 0.1265 (the first above it),
\* pi/2, pi, 3 pi/2 and 2 pi.
HalfAngles ==
  {<<1000, 0>>, <<999, 45>>, <<998, 63>>, <<707, 707>>, <<0, 1000>>,
   <<-707, 707>>, <<-999, 45>>, <<-998, 63>>, <<-1000, 0>>}

\* The rotation of half angle h about the axis a, in the direction sgn.
AxisQuat(h, a, sgn) ==
  [w |-> h[1],
   x |-> IF a = "x" THEN sgn * h[2] ELSE 0,
   y |-> IF a = "y" THEN sgn * h[2] ELSE 0,
   z |-> IF a = "z" THEN sgn * h[2] ELSE 0]

GravityQuats ==
  {AxisQuat(h, a, sgn) : h \in HalfAngles, a \in {"x", "y", "z"}, sgn \in {-1, 1}}

GravityOdometries ==
  {[header |-> [frame_id |-> m_options.frame],
    child_frame_id |-> "base_link",
    pose |-> [position |-> ZeroVec, orientation |-> q],
    twist_linear |-> ZeroVec] : q \in GravityQuats}

\* update is entered on a tracker after construction.
GravityInit ==
  /\ m_objects = <<>>
  /\ m_last_update = 0
  /\ m_track_creator = EmptyCreator
  /\ pc = "call"
  /\ detections \in DetectionBatches
  /\ odometry \in GravityOdometries
  /\ association = NoAssociation
  /\ result = [status |-> "None", objects |-> <<>>]
  /\ vpc = "idle"
  /\ rois = NoRois
  /\ vassociation = NoAssociation
  /\ pre = [call |-> "validate", tracker |-> NoTracker, detections |-> detections,
            rois |-> NoRois, again |-> FALSE]
  /\ stages = <<>>
  /\ trace = <<>>
  /\ rejecting = FALSE
  /\ base = NoTracker
  /\ before_pruning = <<>>
  /\ vision = NoVision

\* lines 86-90
ValidateCall ==
  /\ pc = "call"
  /\ LET status == validate(detections, odometry, m_last_update)
     IN  /\ result' = [status |-> status, objects |-> <<>>]
         /\ pc' = AfterValidate(status)
  /\ stages' = <<"validate">>
  /\ UNCHANGED <<m_objects, m_last_update, m_track_creator, detections, odometry,
                 association, vpc, rois, vassociation, pre, trace, rejecting, base,
                 before_pruning, vision>>

GravityNext == ValidateCall

GravitySpec == GravityInit /\ [][GravityNext]_vars

(***************************************************************************)
(* The two update functions called without serialization: the tracker has  *)
(* no lock, so one call of update(detections, odometry) and one call of    *)
(* update(rois, tf) on the same tracker may be in progress together, their *)
(* stages interleaving in any order (one wholly before the other          *)
(* included).  The stages of the detection cycle are the actions above and *)
(* its record (pre, stages, trace) stays its own; the vision update keeps  *)
(* its record in vision.                                                   *)
(***************************************************************************)
\* An odometry that validate accepts.
InterleavedOdometry ==
  [header |-> [frame_id |-> m_options.frame],
   child_frame_id |-> "base_link",
   pose |-> [position |-> <<3, 1, 0>>, orientation |-> YawQuat],
   twist_linear |-> <<1, 0, 0>>]

\* A track as earlier cycles leave it: made of a detection of DetectionSample
\* seen through InterleavedOdometry, and since then updated in every cycle
\* (ticks = 0) or left without an observation in the last one (ticks = 1).
SeenTrack(id, ticks) ==
  [NewTrack(id, TransformDetection(DetectionSample(1), InterleavedOdometry))
     EXCEPT !.ticks_since_last_seen = ticks]

\* Trackers between two calls: up to MaxId tracks in the order of their
\* creation, the oldest of them possibly without an observation in the last
\* cycle, the last update at time 0.
InterleavedTrackers ==
  {[m_objects |-> [i \in 1..k |-> SeenTrack(i, IF i = 1 THEN ticks ELSE 0)],
    m_last_update |-> 0,
    m_track_creator |-> [detections |-> <<>>, rois |-> <<>>, next_id |-> k + 1]] :
     k \in 0..MaxId, ticks \in {0, 1}}

\* Both calls are about to be entered; the batch was captured at the time of
\* the last update or MaxTime later.
InterleavedInit ==
  /\ \E tracker \in InterleavedTrackers :
        /\ m_objects = tracker.m_objects
        /\ m_last_update = tracker.m_last_update
        /\ m_track_creator = tracker.m_track_creator
        /\ pre = [call |-> "detections", tracker |-> tracker, detections |-> NoDetections,
                  rois |-> NoRois, again |-> FALSE]
  /\ pc = "call"
  /\ detections \in {dets \in DetectionBatches : dets.header.stamp \in {0, MaxTime}}
  /\ odometry = InterleavedOdometry
  /\ association = NoAssociation
  /\ result = [status |-> "None", objects |-> <<>>]
  /\ vpc = "call"
  /\ rois = NoRois
  /\ vassociation = NoAssociation
  /\ stages = <<>>
  /\ trace = <<>>
  /\ rejecting = FALSE
  /\ base = NoTracker
  /\ before_pruning = <<>>
  /\ vision = NoVision

\* line 169, entered whatever the detection cycle is doing.  The function
\* never reads had_errors, which is left FALSE.
InterleavedVisionAssign ==
  /\ vpc = "call"
  /\ \E r \in RoiBatches :
        /\ Len(m_track_creator.rois) + Len(r.rois) <= MaxRois
        /\ rois' = r
        /\ \E a \in AssociatorResults(Len(m_objects), Len(r.rois)) :
              /\ ~a.had_errors
              /\ vassociation' = a
  /\ vision' = [vision EXCEPT !.entry = m_objects, !.entry_pc = pc]
  /\ vpc' = "update"
  /\ UNCHANGED <<m_objects, m_last_update, m_track_creator, pc, detections, odometry,
                 association, result, pre, stages, trace, rejecting, base,
                 before_pruning>>

\* What m_objects[i].update(rois.rois[maybe_roi_idx].classifications) can leave
\* in a track when maybe_roi_idx was read outside track_assignments: the
\* track as it was (the value read was UNASSIGNED), the classification of one
\* of the ROIs, or one read outside rois.rois.
UndefinedUpdates(t, r) ==
  {t} \cup {TrackUpdateClassification(t, r.rois[k].classifications) : k \in 1..Len(r.rois)}
      \cup {TrackUpdateClassification(t, "garbage")}

\* lines 171-176.  The loop runs over the collection as it is now and reads
\* track_assignments[i] for each of its tracks.  For a track beyond the end
\* of track_assignments the read is outside the vector: the behaviour is
\* undefined, the loop leaves one of the collections below or the process
\* ends, and what the process does afterwards is not followed.
InterleavedVisionUpdateTracks ==
  /\ vpc = "update"
  /\ LET n == Len(vassociation.track_assignments)
     IN  IF Len(m_objects) <= n
           THEN /\ m_objects' = VisionUpdateLoop(m_objects, <<>>, vassociation, rois).objects
                /\ vpc' = "add"
                /\ pc' = pc
           ELSE /\ \E tail \in [(n + 1)..Len(m_objects) -> UNION {UndefinedUpdates(
                                  m_objects[i], rois) : i \in (n + 1)..Len(m_objects)}] :
                      /\ \A i \in (n + 1)..Len(m_objects) :
                            tail[i] \in UndefinedUpdates(m_objects[i], rois)
                      /\ m_objects' =
                            VisionUpdateLoop(SubSeq(m_objects, 1, n), <<>>,
                                             vassociation, rois).objects
                            \o [k \in 1..(Len(m_objects) - n) |-> tail[n + k]]
                /\ vpc' \in {"undefined", "crashed"}
                /\ pc' = vpc'
  /\ vision' = [vision EXCEPT !.applied = TRUE, !.apply_pc = pc,
                              !.before = m_objects, !.after = m_objects']
  /\ UNCHANGED <<m_last_update, m_track_creator, detections, odometry, association,
                 result, rois, vassociation, pre, stages, trace, rejecting, base,
                 before_pruning>>

\* line 177
InterleavedVisionAddObjects ==
  /\ vpc = "add"
  /\ m_track_creator' = add_objects_rois(m_track_creator, rois, vassociation)
  /\ vpc' = "done"
  /\ UNCHANGED <<m_objects, m_last_update, pc, detections, odometry, association,
                 result, rois, vassociation, pre, stages, trace, rejecting, base,
                 before_pruning, vision>>

\* line 178: the call returns, its argument and its local are gone.
InterleavedVisionReturn ==
  /\ vpc = "done"
  /\ vpc' = "idle"
  /\ rois' = NoRois
  /\ vassociation' = NoAssociation
  /\ vision' = NoVision
  /\ UNCHANGED <<m_objects, m_last_update, m_track_creator, pc, detections, odometry,
                 association, result, pre, stages, trace, rejecting, base,
                 before_pruning>>

InterleavedNext ==
  \/ ValidateCall
  \/ Transform
  \/ Predict
  \/ Associate
  \/ UpdateTracks
  \/ CreateTracks
  \/ PruneTracks
  \/ BuildResult
  \/ Return
  \/ InterleavedVisionAssign
  \/ InterleavedVisionUpdateTracks
  \/ InterleavedVisionAddObjects
  \/ InterleavedVisionReturn

InterleavedSpec == InterleavedInit /\ [][InterleavedNext]_vars

(***************************************************************************)
(* What the claims speak of: the call in progress and its arguments as    *)
(* they were passed.                                                       *)
(***************************************************************************)
InDetectionCall == pc # "idle" /\ pre.call = "detections"

Returning == pc = "done"

RejectStatuses ==
  {"WentBackInTime", "DetectionFrameMismatch", "TrackerFrameMismatch",
   "FrameNotGravityAligned"}

\* The four preconditions, read off the arguments.
TimeViolated == pre.detections.header.stamp < pre.tracker.m_last_update

DetectionFrameViolated == pre.detections.header.frame_id # odometry.child_frame_id

TrackerFrameViolated == odometry.header.frame_id # "map"

\* Of the orientations of Poses only the pitch of pi is not gravity aligned.
GravityViolated == odometry.pose.orientation = PitchQuat

(***************************************************************************)
(* C1. A detection-cycle update whose batch was captured strictly before   *)
(* the last update goes straight to its return, with the status            *)
(* WentBackInTime and the track collection it was called with.             *)
(***************************************************************************)
C1_WentBackInTime ==
  (InDetectionCall /\ TimeViolated) =>
     /\ Returning
     /\ result.status = "WentBackInTime"
     /\ m_objects = pre.tracker.m_objects

\* Such a call has returned, on a tracker that holds tracks.
C1_Witness ==
  /\ InDetectionCall /\ TimeViolated /\ Returning
  /\ result.status = "WentBackInTime"
  /\ Len(m_objects) > 0

(***************************************************************************)
(* C2, as stated. A detection-cycle update whose odometry child frame      *)
(* differs from the batch frame returns DetectionFrameMismatch with no     *)
(* track mutated, whatever the capture time, the parent frame and the      *)
(* orientation are.                                                        *)
(***************************************************************************)
C2_Original ==
  (InDetectionCall /\ DetectionFrameViolated) =>
     /\ Returning
     /\ result.status = "DetectionFrameMismatch"
     /\ m_objects = pre.tracker.m_objects

(***************************************************************************)
(* C2, amended. A detection-cycle update whose batch was not captured      *)
(* before the last update and whose odometry child frame differs from the  *)
(* batch frame returns DetectionFrameMismatch with no track mutated,       *)
(* whatever the parent frame and the orientation are.                      *)
(***************************************************************************)
C2_DetectionFrameMismatch ==
  (InDetectionCall /\ ~TimeViolated /\ DetectionFrameViolated) =>
     /\ Returning
     /\ result.status = "DetectionFrameMismatch"
     /\ m_objects = pre.tracker.m_objects

\* Such a call has returned although the parent frame and the orientation
\* are wrong too, on a tracker that holds tracks.
C2_Witness ==
  /\ InDetectionCall /\ ~TimeViolated /\ DetectionFrameViolated /\ Returning
  /\ TrackerFrameViolated /\ GravityViolated
  /\ result.status = "DetectionFrameMismatch"
  /\ Len(m_objects) > 0

(***************************************************************************)
(* C3. The status at the gate is that of the first violated precondition   *)
(* in the order time, detection frame, tracking frame, gravity alignment,  *)
(* and the call passes the gate exactly when none is violated.             *)
(***************************************************************************)
PassedGate == "transform" \in {stages[i] : i \in 1..Len(stages)} \/ pc = "transform"

C3_ValidationOrder ==
  InDetectionCall =>
     /\ TimeViolated => (Returning /\ result.status = "WentBackInTime")
     /\ (~TimeViolated /\ DetectionFrameViolated) =>
           (Returning /\ result.status = "DetectionFrameMismatch")
     /\ (~TimeViolated /\ ~DetectionFrameViolated /\ TrackerFrameViolated) =>
           (Returning /\ result.status = "TrackerFrameMismatch")
     /\ (~TimeViolated /\ ~DetectionFrameViolated /\ ~TrackerFrameViolated
           /\ GravityViolated) =>
           (Returning /\ result.status = "FrameNotGravityAligned")
     /\ PassedGate <=>
           ~(TimeViolated \/ DetectionFrameViolated \/ TrackerFrameViolated
              \/ GravityViolated)
     /\ (pc = "transform") => result.status = "Ok"

\* A call that violates the last two preconditions only has returned.
C3_Witness ==
  /\ InDetectionCall /\ Returning
  /\ ~TimeViolated /\ ~DetectionFrameViolated
  /\ TrackerFrameViolated /\ GravityViolated
  /\ result.status = "TrackerFrameMismatch"

(***************************************************************************)
(* C4. A detection-cycle update rejected at the gate is a no-op: the       *)
(* collection, the last-update time and the TrackCreator are those at the  *)
(* entry of the call, no Track method was invoked, no stage after validate *)
(* was entered and the result has no track list; and after any number of   *)
(* consecutive rejected calls the tracker is as it was before the first.   *)
(***************************************************************************)
C4_RejectionIsNoOp ==
  /\ (InDetectionCall /\ result.status \in RejectStatuses) =>
        /\ Returning
        /\ TrackerState = pre.tracker
        /\ trace = <<>>
        /\ stages = <<"validate">>
        /\ result.objects = <<>>
  /\ rejecting => TrackerState = base

\* The second of two consecutive rejected calls has returned, on a tracker
\* that holds a track and a buffered ROI.
C4_Witness ==
  /\ InDetectionCall /\ Returning /\ result.status \in RejectStatuses
  /\ pre.again
  /\ base = pre.tracker
  /\ Len(m_objects) > 0
  /\ Len(m_track_creator.rois) > 0

(***************************************************************************)
(* The Track methods of the call in progress, read off the trace.          *)
(***************************************************************************)
CountOps(id, ops) == Len(SelectSeq(trace, LAMBDA e : e.id = id /\ e.op \in ops))

HasEvent(op, arg) == \E k \in 1..Len(trace) : trace[k] = Event(op, 0, arg)

StagesOfCycle ==
  <<"validate", "transform", "predict", "associate", "update", "create", "prune",
    "serialize", "advance">>

IsPrefix(a, b) == Len(a) <= Len(b) /\ a = SubSeq(b, 1, Len(a))

\* The tracks the association was computed against are those of the entry.
TracksAtEntry == pre.tracker.m_objects

Assigned(i) == association.track_assignments[i] # UNASSIGNED

(***************************************************************************)
(* C5. A detection-cycle update that passed the gate and whose associator  *)
(* result has had_errors set returns the status InvalidShape.              *)
(***************************************************************************)
C5_InvalidShapeReturned ==
  (InDetectionCall /\ Returning /\ association.had_errors) =>
     result.status = "InvalidShape"

(***************************************************************************)
(* C6. A cycle whose associator result has had_errors set still goes       *)
(* through every stage: each assigned track is updated, each unassigned    *)
(* one gets no_update, the unassigned detections go to the TrackCreator,   *)
(* create_tracks is called, the result is built and the last-update time   *)
(* is the capture time of the batch.                                       *)
(***************************************************************************)
C6_ErrorDoesNotAbort ==
  (InDetectionCall /\ Returning /\ association.had_errors) =>
     /\ stages = StagesOfCycle
     /\ \A i \in 1..Len(TracksAtEntry) :
           /\ CountOps(TracksAtEntry[i].id, {"update"}) = IF Assigned(i) THEN 1 ELSE 0
           /\ CountOps(TracksAtEntry[i].id, {"no_update"}) = IF Assigned(i) THEN 0 ELSE 1
     /\ HasEvent("add_objects", Cardinality(association.unassigned_detection_indices))
     /\ \E n \in 0..MaxId : HasEvent("create_tracks", n)
     /\ m_track_creator.detections = <<>>
     /\ result.objects # <<>>
     /\ m_last_update = pre.detections.header.stamp

\* Such a cycle has ended with one track updated, one not, and a later
\* capture time than the last.
C6_Witness ==
  /\ InDetectionCall /\ Returning /\ association.had_errors
  /\ \E i, j \in 1..Len(TracksAtEntry) : Assigned(i) /\ ~Assigned(j)
  /\ pre.tracker.m_last_update < m_last_update

(***************************************************************************)
(* C7. The last-update time never decreases; it changes only in the last   *)
(* step of a detection-cycle update that passed the gate, and is then the  *)
(* capture time of that batch.                                             *)
(***************************************************************************)
C7_LastUpdateMonotonic ==
  [][/\ m_last_update' >= m_last_update
     /\ m_last_update' # m_last_update =>
          /\ pc = "build" /\ pc' = "done"
          /\ PassedGate
          /\ m_last_update' = pre.detections.header.stamp]_vars

\* The time has advanced a second time.
C7_Witness ==
  /\ InDetectionCall /\ Returning
  /\ 0 < pre.tracker.m_last_update
  /\ pre.tracker.m_last_update < m_last_update
  /\ m_last_update = pre.detections.header.stamp

(***************************************************************************)
(* C8. The result of a detection-cycle update has a track list exactly     *)
(* when its status is Ok, and the list of an Ok result is stamped with the *)
(* capture time of the batch and tagged with the tracking frame.           *)
(***************************************************************************)
C8_TrackListIffOk ==
  (InDetectionCall /\ Returning) =>
     /\ result.objects # <<>> <=> result.status = "Ok"
     /\ result.status = "Ok" =>
          result.objects[1].header =
             [stamp |-> pre.detections.header.stamp, frame_id |-> "map"]

\* An Ok result with a track in its list, for a batch of another frame and
\* a capture time other than 0.
C8_Witness ==
  /\ InDetectionCall /\ Returning
  /\ result.status = "Ok"
  /\ result.objects # <<>>
  /\ Len(result.objects[1].objects) > 0
  /\ pre.detections.header.stamp > 0
  /\ pre.detections.header.frame_id # "map"

(***************************************************************************)
(* C9. In a cycle that passed the gate, once the update stage is over      *)
(* every track of the collection the association was computed against has  *)
(* received exactly one of update and no_update: the assigned ones one     *)
(* update, the unassigned ones one no_update.                              *)
(***************************************************************************)
UpdateStageOver == InDetectionCall /\ pc \in {"create", "prune", "build", "done"} /\ PassedGate

C9_ExactlyOneOfUpdateNoUpdate ==
  /\ UpdateStageOver =>
        \A i \in 1..Len(TracksAtEntry) :
           /\ CountOps(TracksAtEntry[i].id, {"update", "no_update"}) = 1
           /\ CountOps(TracksAtEntry[i].id, {"update"}) = IF Assigned(i) THEN 1 ELSE 0
  /\ (InDetectionCall /\ pc = "create") =>
        \A i \in 1..Len(TracksAtEntry) :
           /\ m_objects[i].id = TracksAtEntry[i].id
           /\ m_objects[i].ticks_since_last_seen =
                 IF Assigned(i) THEN 0 ELSE TracksAtEntry[i].ticks_since_last_seen + 1

\* The update stage is over for a collection of an assigned and an
\* unassigned track.
C9_Witness ==
  /\ InDetectionCall /\ pc = "create"
  /\ \E i, j \in 1..Len(TracksAtEntry) : Assigned(i) /\ ~Assigned(j)

(***************************************************************************)
(* C10. The stages of an accepted cycle occur once each in the order        *)
(* validate, transform, predict, associate, update, create, prune,         *)
(* serialize, advance; when the associator is called every track has been  *)
(* predicted once, by the time since the last update, and the batch is the *)
(* transformed one; the Track methods are invoked in the order of the      *)
(* stages.                                                                 *)
(***************************************************************************)
Rank(op) ==
  CASE op = "predict" -> 1
    [] op = "assign" -> 2
    [] op = "update" -> 3
    [] op = "no_update" -> 4
    [] op = "add_objects" -> 5
    [] op = "create_tracks" -> 6

C10_StageOrder ==
  InDetectionCall =>
     /\ IsPrefix(stages, StagesOfCycle)
     /\ (Returning /\ PassedGate) => stages = StagesOfCycle
     /\ \A i, j \in 1..Len(trace) : i < j => Rank(trace[i].op) <= Rank(trace[j].op)
     /\ pc = "associate" =>
          /\ detections.header.frame_id = "map"
          /\ Len(detections.objects) = Len(pre.detections.objects)
          /\ (odometry.pose.orientation = YawQuat /\ Len(detections.objects) > 0) =>
                detections.objects[1].centroid_position = <<2, 0, 0>>
          /\ \A i \in 1..Len(TracksAtEntry) :
                /\ CountOps(TracksAtEntry[i].id, {"predict"}) = 1
                /\ m_objects[i].time_since_last_seen =
                      TracksAtEntry[i].time_since_last_seen
                        + pre.detections.header.stamp - pre.tracker.m_last_update

\* An accepted cycle has ended that moved its batch and predicted two
\* tracks by a time other than 0.
C10_Witness ==
  /\ InDetectionCall /\ Returning /\ PassedGate
  /\ stages = StagesOfCycle
  /\ odometry.pose.orientation = YawQuat
  /\ Len(detections.objects) > 0
  /\ Len(TracksAtEntry) = 2
  /\ pre.detections.header.stamp > pre.tracker.m_last_update

(***************************************************************************)
(* The collection around the pruning of the call in progress.              *)
(***************************************************************************)
Removable(t) ==
  should_be_removed(t, m_options.pruning_time_threshold,
                    m_options.pruning_ticks_threshold)

TracksOf(objs) == {objs[i] : i \in 1..Len(objs)}

Pruned == InDetectionCall /\ pc \in {"build", "done"}

(***************************************************************************)
(* C11. From the pruning of an accepted cycle until the next cycle         *)
(* predicts, the collection holds no track that should_be_removed: none    *)
(* whose time without update is longer than the time threshold, none whose *)
(* number of cycles without update is more than the tick threshold; and    *)
(* every track handed to the pruning that is within both thresholds is     *)
(* still in the collection.                                                *)
(***************************************************************************)
C11_Pruning_State ==
  /\ pc \in {"idle", "build", "done"} =>
        \A i \in 1..Len(m_objects) :
           /\ ~Removable(m_objects[i])
           /\ m_objects[i].time_since_last_seen <= m_options.pruning_time_threshold
           /\ m_objects[i].ticks_since_last_seen <= m_options.pruning_ticks_threshold
  /\ Pruned =>
        \A i \in 1..Len(before_pruning) :
           ~Removable(before_pruning[i]) => before_pruning[i] \in TracksOf(m_objects)

(***************************************************************************)
(* C11. In every state: after the pruning of an accepted cycle the         *)
(* collection holds no removable track and keeps every track within both   *)
(* thresholds.                                                             *)
(***************************************************************************)
C11_Pruning == []C11_Pruning_State

\* A cycle has pruned a track that was too long without update, though not
\* for too many cycles, and has kept another.
C11_Witness ==
  /\ Pruned /\ pc = "done"
  /\ Len(m_objects) = 1
  /\ \E i, j \in 1..Len(before_pruning) :
        /\ before_pruning[i].time_since_last_seen > m_options.pruning_time_threshold
        /\ before_pruning[i].ticks_since_last_seen <= m_options.pruning_ticks_threshold
        /\ before_pruning[i] \notin TracksOf(m_objects)
        /\ ~Removable(before_pruning[j])
        /\ before_pruning[j] \in TracksOf(m_objects)

(***************************************************************************)
(* The output of an accepted cycle, and what the cycle created and pruned. *)
(***************************************************************************)
Accepted == InDetectionCall /\ Returning /\ PassedGate

Output == result.objects[1].objects

Ids(objs) == [i \in 1..Len(objs) |-> objs[i].id]

OutputIds == [i \in 1..Len(Output) |-> Output[i].object_id]

\* The number of tracks create_tracks returned.
CreatedCount == CHOOSE n \in 0..MaxId : HasEvent("create_tracks", n)

\* Their identities, in the order the TrackCreator returned them.
CreatedIds ==
  [k \in 1..CreatedCount |-> pre.tracker.m_track_creator.next_id + k - 1]

\* The number of tracks of the cycle that are not in its output.
PrunedCount ==
  Cardinality({id \in TracksOf(Ids(TracksAtEntry) \o CreatedIds) :
                 id \notin TracksOf(OutputIds)})

(***************************************************************************)
(* C12. The output of an accepted cycle has as many tracks as the          *)
(* collection had at the entry, plus those create_tracks returned, minus   *)
(* those pruned; it lists the live collection in its order, which is the   *)
(* surviving tracks of the entry in their order followed by the surviving  *)
(* created tracks in the order of the TrackCreator.                        *)
(***************************************************************************)
C12_OutputLengthAndOrder_State ==
  Accepted =>
     /\ \E n \in 0..MaxId : HasEvent("create_tracks", n)
     /\ Len(Output) = Len(TracksAtEntry) + CreatedCount - PrunedCount
     /\ Output = [i \in 1..Len(m_objects) |-> TrackMsg(m_objects[i])]
     /\ OutputIds = SelectSeq(Ids(TracksAtEntry) \o CreatedIds,
                              LAMBDA id : id \in TracksOf(OutputIds))
     /\ Ids(before_pruning) = Ids(TracksAtEntry) \o CreatedIds

(***************************************************************************)
(* C12. In every state: an accepted cycle returns as many objects as the   *)
(* collection holds tracks, in the collection's order: survivors in their  *)
(* earlier order, then the cycle's new tracks.                             *)
(***************************************************************************)
C12_OutputLengthAndOrder == []C12_OutputLengthAndOrder_State

\* The output of a cycle lists a track of the entry and a created one.
C12_Witness ==
  /\ Accepted
  /\ Len(TracksAtEntry) = 1
  /\ CreatedCount = 1
  /\ Len(Output) = 2
  /\ Output[1].object_id = TracksAtEntry[1].id

\* The output of a cycle that pruned one of two tracks.
C12_WitnessPruned ==
  /\ Accepted
  /\ Len(TracksAtEntry) = 2
  /\ PrunedCount = 1
  /\ OutputIds = <<TracksAtEntry[2].id>>

(***************************************************************************)
(* The vision update in progress.                                          *)
(***************************************************************************)
InVisionCall == vpc # "idle" /\ pre.call = "rois"

VisionStages == <<"associate", "update", "add_objects">>

Matched(i) == vassociation.track_assignments[i] # UNASSIGNED

TraceOps == {trace[k].op : k \in 1..Len(trace)}

(***************************************************************************)
(* C13. A vision update changes nothing in the tracker but the             *)
(* classification of the tracks its associator matched to an ROI and the   *)
(* buffer of the TrackCreator: the collection keeps its size and order,    *)
(* every track its position and staleness counters, every unmatched track  *)
(* all its fields, the last-update time its value; no track is predicted,  *)
(* updated with a detection, decayed, created or pruned; and the call goes *)
(* through all its steps, with no gate that rejects it.                    *)
(***************************************************************************)
C13_VisionFrame_State ==
  InVisionCall =>
     /\ Len(m_objects) = Len(TracksAtEntry)
     /\ \A i \in 1..Len(TracksAtEntry) :
           /\ [m_objects[i] EXCEPT !.classification = TracksAtEntry[i].classification]
                 = TracksAtEntry[i]
           /\ ~Matched(i) => m_objects[i] = TracksAtEntry[i]
           /\ (Matched(i) /\ vpc \in {"add", "done"}) =>
                 m_objects[i].classification =
                    rois.rois[vassociation.track_assignments[i]].classifications
     /\ m_last_update = pre.tracker.m_last_update
     /\ m_track_creator.next_id = pre.tracker.m_track_creator.next_id
     /\ m_track_creator.detections = pre.tracker.m_track_creator.detections
     /\ IsPrefix(pre.tracker.m_track_creator.rois, m_track_creator.rois)
     /\ TraceOps \subseteq {"assign", "update_classification", "add_objects"}
     /\ before_pruning = <<>>
     /\ pc = "idle" /\ result.status = "None"
     /\ IsPrefix(stages, VisionStages)
     /\ vpc = "done" =>
          /\ stages = VisionStages
          /\ Len(m_track_creator.rois) =
                Len(pre.tracker.m_track_creator.rois)
                  + Cardinality(vassociation.unassigned_detection_indices)

(***************************************************************************)
(* C13. In every state: a vision frame gives the vision update to the      *)
(* matched tracks only, updates no unmatched track otherwise, and creates, *)
(* removes and reorders no track.                                          *)
(***************************************************************************)
C13_VisionFrame == []C13_VisionFrame_State

\* A vision update has ended that classified one of two tracks and left the
\* other one alone.
C13_Witness ==
  /\ InVisionCall /\ vpc = "done"
  /\ Len(TracksAtEntry) = 2
  /\ \E i, j \in 1..2 :
        /\ Matched(i) /\ ~Matched(j)
        /\ m_objects[i].classification # TracksAtEntry[i].classification
        /\ m_objects[j] = TracksAtEntry[j]
  /\ m_last_update > 0

(***************************************************************************)
(* C14. Tracks are spawned in accepted detection cycles only. A vision     *)
(* update and a rejected detection update never call create_tracks, create *)
(* no identity, and leave the buffer of the TrackCreator as it was or with *)
(* observations added at its end. An accepted cycle calls add_objects once *)
(* and create_tracks once, right after it, and from then on the buffer is  *)
(* empty, whatever the vision updates before the cycle had put into it.    *)
(***************************************************************************)
OpPositions(op) == {k \in 1..Len(trace) : trace[k].op = op}

C14_SpawnOnlyInAcceptedCycles_State ==
  /\ InVisionCall =>
        /\ "create_tracks" \notin TraceOps
        /\ m_track_creator.next_id = pre.tracker.m_track_creator.next_id
        /\ Ids(m_objects) = Ids(TracksAtEntry)
        /\ IsPrefix(pre.tracker.m_track_creator.rois, m_track_creator.rois)
        /\ IsPrefix(pre.tracker.m_track_creator.detections, m_track_creator.detections)
  /\ (InDetectionCall /\ ~PassedGate) =>
        /\ TraceOps = {}
        /\ m_track_creator = pre.tracker.m_track_creator
        /\ Ids(m_objects) = Ids(TracksAtEntry)
  /\ (InDetectionCall /\ PassedGate /\ pc \in {"transform", "predict", "associate",
                                                "update", "create"}) =>
        /\ TraceOps \cap {"add_objects", "create_tracks"} = {}
        /\ m_track_creator = pre.tracker.m_track_creator
        /\ Ids(m_objects) = Ids(TracksAtEntry)
  /\ (InDetectionCall /\ PassedGate /\ pc \in {"prune", "build", "done"}) =>
        /\ Cardinality(OpPositions("add_objects")) = 1
        /\ Cardinality(OpPositions("create_tracks")) = 1
        /\ \A k \in OpPositions("add_objects") : k + 1 \in OpPositions("create_tracks")
        /\ m_track_creator.detections = <<>>
        /\ m_track_creator.rois = <<>>
        /\ m_track_creator.next_id = pre.tracker.m_track_creator.next_id + CreatedCount
  /\ (pc = "idle" /\ vpc = "idle") => m_track_creator.detections = <<>>

(***************************************************************************)
(* C14. In every state: tracks are created only by the creation step of a  *)
(* detection cycle that passed validation, once per such cycle.            *)
(***************************************************************************)
C14_SpawnOnlyInAcceptedCycles == []C14_SpawnOnlyInAcceptedCycles_State

\* An accepted cycle has ended that found an ROI in the buffer and created
\* a track.
C14_Witness ==
  /\ Accepted
  /\ Len(pre.tracker.m_track_creator.rois) > 0
  /\ m_track_creator.rois = <<>>
  /\ CreatedCount > 0
  /\ Len(m_objects) > Len(TracksAtEntry)

(***************************************************************************)
(* C15. transform with the identity odometry (zero translation, identity   *)
(* rotation, zero linear velocity) leaves the centroid, the polygon, the   *)
(* covariance and the twist of every detection as they were; of the whole  *)
(* batch only the frame id of the header changes, to the tracking frame.   *)
(***************************************************************************)
Transformed == pre.call = "transform" /\ "transform" \in TracksOf(stages)

C15_IdentityTransform ==
  (Transformed /\ odometry = IdentityOdometry) =>
     /\ \A i \in 1..Len(pre.detections.objects) :
           /\ detections.objects[i].centroid_position =
                 pre.detections.objects[i].centroid_position
           /\ detections.objects[i].polygon = pre.detections.objects[i].polygon
           /\ detections.objects[i].position_covariance =
                 pre.detections.objects[i].position_covariance
           /\ detections.objects[i].linear = pre.detections.objects[i].linear
           /\ detections.objects[i].angular = pre.detections.objects[i].angular
     /\ detections = [pre.detections EXCEPT !.header.frame_id = m_options.frame]
     /\ detections.header.frame_id # pre.detections.header.frame_id

\* The identity odometry was applied to a batch of another frame, with an
\* object that has a covariance and one that has a twist.
C15_Witness ==
  /\ Transformed /\ odometry = IdentityOdometry
  /\ pre.detections.header.frame_id = "base_link"
  /\ detections.header.frame_id = "map"
  /\ \E i, j \in 1..Len(detections.objects) :
        /\ detections.objects[i].has_position_covariance
        /\ detections.objects[j].has_twist
        /\ detections.objects[j].linear # ZeroVec

(***************************************************************************)
(* The orientation handed to the gate.                                     *)
(***************************************************************************)
Validated == pre.call = "validate" /\ pc # "call"

PureYaw(q) == q.x = 0 /\ q.y = 0

PurePitch(q) == q.x = 0 /\ q.z = 0 /\ q.y # 0

PureRoll(q) == q.y = 0 /\ q.z = 0 /\ q.x # 0

Abs(n) == IF n < 0 THEN 0 - n ELSE n

\* The orientation is less than 0.1 rad away from the identity: q and -q are
\* the same orientation, of angle 2 acos |w|.
TiltBelowThreshold(q) == Abs(q.w) * 100 >= CosHalfAngleThresh

(***************************************************************************)
(* C16. The gate accepts an orientation that is a pure yaw, of any         *)
(* magnitude; it accepts an orientation that is a pure pitch or a pure     *)
(* roll when its angle is below 0.1 rad and rejects it with                *)
(* FrameNotGravityAligned when its angle is above 0.1 rad.                 *)
(***************************************************************************)
C16_GravityBoundary ==
  Validated =>
     /\ PureYaw(odometry.pose.orientation) => result.status = "Ok"
     /\ (PurePitch(odometry.pose.orientation) \/ PureRoll(odometry.pose.orientation)) =>
           IF TiltBelowThreshold(odometry.pose.orientation)
             THEN result.status = "Ok"
             ELSE result.status = "FrameNotGravityAligned"

(***************************************************************************)
(* C16, for the quaternions the code assumes (line 47: angles between -pi  *)
(* and pi, a scalar part that is not negative): the statement above holds  *)
(* for these.                                                              *)
(***************************************************************************)
C16_GravityBoundaryScalarNotNegative ==
  (Validated /\ odometry.pose.orientation.w >= 0) => C16_GravityBoundary

\* A pitch just below the threshold was accepted.
C16_WitnessBelow ==
  /\ Validated
  /\ odometry.pose.orientation = AxisQuat(<<999, 45>>, "y", 1)
  /\ result.status = "Ok"

\* A roll just above the threshold was rejected.
C16_WitnessAbove ==
  /\ Validated
  /\ odometry.pose.orientation = AxisQuat(<<998, 63>>, "x", -1)
  /\ result.status = "FrameNotGravityAligned"

(***************************************************************************)
(* C17. In every state the collection holds no two tracks of the same      *)
(* identity, create_tracks giving each track an identity not used before:  *)
(* the identities are in the order of their creation, each was given out   *)
(* by the TrackCreator, and during a call the collection holds tracks of   *)
(* the entry and tracks create_tracks returned in this call, nothing else. *)
(***************************************************************************)
C17_NoDuplicateIdentities_State ==
  /\ \A i, j \in 1..Len(m_objects) : i # j => m_objects[i].id # m_objects[j].id
  /\ \A i, j \in 1..Len(m_objects) : i < j => m_objects[i].id < m_objects[j].id
  /\ \A i \in 1..Len(m_objects) : m_objects[i].id < m_track_creator.next_id
  /\ pre.call \in {"detections", "rois"} =>
        \A i \in 1..Len(m_objects) :
           \/ m_objects[i].id \in TracksOf(Ids(TracksAtEntry))
           \/ /\ pc \in {"prune", "build", "done"}
              /\ m_objects[i].id >= pre.tracker.m_track_creator.next_id

(***************************************************************************)
(* C17. In every state: no two tracks of the collection have the same      *)
(* identity.                                                               *)
(***************************************************************************)
C17_NoDuplicateIdentities == []C17_NoDuplicateIdentities_State

\* Between two calls the collection holds the two tracks of the two
\* identities given out.
C17_Witness ==
  /\ pc = "idle" /\ vpc = "idle"
  /\ Len(m_objects) = 2
  /\ m_objects[1].id # m_objects[2].id
  /\ m_track_creator.next_id = 3

(***************************************************************************)
(* C18. The indices of an AssociatorResult are applied to the collection   *)
(* they were computed against. From the assign call to the end of the      *)
(* loops driven by its result, in the detection-cycle update and in the    *)
(* vision update, the collection has the tracks of the call's entry in     *)
(* their order, nothing was created or pruned, and every index of          *)
(* track_assignments and of unassigned_track_indices is one of the         *)
(* collection, every observation index one of the batch.                   *)
(***************************************************************************)
IndicesInRange(a, n_tracks, n_obs) ==
  /\ Len(a.track_assignments) = n_tracks
  /\ \A i \in 1..n_tracks : a.track_assignments[i] \in (1..n_obs) \cup {UNASSIGNED}
  /\ a.unassigned_track_indices \subseteq 1..n_tracks

C18_IndicesApplyToSameCollection_State ==
  /\ (InDetectionCall /\ pc \in {"update", "create"}) =>
        /\ Ids(m_objects) = Ids(TracksAtEntry)
        /\ IndicesInRange(association, Len(m_objects), Len(detections.objects))
        /\ TraceOps \cap {"add_objects", "create_tracks"} = {}
        /\ before_pruning = <<>>
        /\ pc = "create" =>
              \A k \in 1..Len(trace) :
                 trace[k].op \in {"update", "no_update"} =>
                    trace[k].id \in TracksOf(Ids(m_objects))
  /\ (InVisionCall /\ vpc \in {"update", "add", "done"}) =>
        /\ Ids(m_objects) = Ids(TracksAtEntry)
        /\ IndicesInRange(vassociation, Len(m_objects), Len(rois.rois))
        /\ before_pruning = <<>>
        /\ m_track_creator.next_id = pre.tracker.m_track_creator.next_id

(***************************************************************************)
(* C18. In every state: the indices of an association are applied to the   *)
(* collection they were computed on, whose length and order have not       *)
(* changed since.                                                          *)
(***************************************************************************)
C18_IndicesApplyToSameCollection == []C18_IndicesApplyToSameCollection_State

\* The associator has assigned the second of two tracks and left the first
\* one unassigned; the loops are about to run.
C18_Witness ==
  /\ InDetectionCall /\ pc = "update"
  /\ Len(m_objects) = 2
  /\ Assigned(2)
  /\ association.unassigned_track_indices = {1}

\* The same in a vision update.
C18_WitnessVision ==
  /\ InVisionCall /\ vpc = "update"
  /\ Len(m_objects) = 2
  /\ Matched(2)
  /\ vassociation.unassigned_track_indices = {1}

(***************************************************************************)
(* C19. The tracks an accepted cycle created were not predicted, updated   *)
(* or decayed in it; they were handed to its pruning with the others, and  *)
(* those the pruning left are in its output, as they were created. The     *)
(* tracks a cycle finds at its entry, created by earlier cycles, are each  *)
(* predicted once and each has its place in the association.               *)
(***************************************************************************)
C19_CreatedTracksInTheirCycle_State ==
  /\ Accepted =>
        /\ \A k \in 1..CreatedCount :
              /\ CountOps(CreatedIds[k], {"predict", "update", "no_update"}) = 0
              /\ CreatedIds[k] \in TracksOf(Ids(before_pruning))
        /\ \A i \in 1..Len(before_pruning) :
              before_pruning[i].id \in TracksOf(CreatedIds) =>
                 /\ before_pruning[i].time_since_last_seen = 0
                 /\ before_pruning[i].ticks_since_last_seen = 0
                 /\ IF Removable(before_pruning[i])
                      THEN before_pruning[i].id \notin TracksOf(OutputIds)
                      ELSE TrackMsg(before_pruning[i]) \in TracksOf(Output)
  /\ Accepted =>
        /\ Len(association.track_assignments) = Len(TracksAtEntry)
        /\ \A i \in 1..Len(TracksAtEntry) :
              CountOps(TracksAtEntry[i].id, {"predict"}) = 1

(***************************************************************************)
(* C19. In every state: the tracks a cycle creates are inserted before     *)
(* that cycle prunes and are part of what that cycle returns.              *)
(***************************************************************************)
C19_CreatedTracksInTheirCycle == []C19_CreatedTracksInTheirCycle_State

\* A cycle later than the last by a time other than 0 has predicted the
\* track of an earlier cycle and created a second one, which is in its
\* output.
C19_Witness ==
  /\ Accepted
  /\ pre.detections.header.stamp > pre.tracker.m_last_update
  /\ Len(TracksAtEntry) = 1
  /\ CountOps(TracksAtEntry[1].id, {"predict"}) = 1
  /\ CreatedCount = 1
  /\ CountOps(CreatedIds[1], {"predict", "update", "no_update"}) = 0
  /\ CreatedIds[1] \in TracksOf(OutputIds)

(***************************************************************************)
(* C20. Every predict of a cycle is given the capture time of the batch    *)
(* minus the last-update time, which is not negative, and after the loop   *)
(* every track of the entry has been given it; a batch captured at the     *)
(* last-update time is not rejected as WentBackInTime, and its cycle       *)
(* predicts by 0.                                                          *)
(***************************************************************************)
Elapsed == pre.detections.header.stamp - pre.tracker.m_last_update

C20_PredictByElapsedTime_State ==
  /\ (InDetectionCall /\ pc \in {"associate", "done"}) =>
        \A k \in 1..Len(trace) :
           trace[k].op = "predict" => (trace[k].arg = Elapsed /\ trace[k].arg >= 0)
  /\ (InDetectionCall /\ Elapsed = 0) =>
        /\ result.status # "WentBackInTime"
        /\ ~(DetectionFrameViolated \/ TrackerFrameViolated \/ GravityViolated)
              => PassedGate
        /\ Returning =>
              \A k \in 1..Len(trace) : trace[k].op = "predict" => trace[k].arg = 0
  /\ (InDetectionCall /\ pc = "associate") =>
        /\ Len(trace) = Len(TracksAtEntry)
        /\ \A i \in 1..Len(TracksAtEntry) :
              trace[i] = Event("predict", TracksAtEntry[i].id, Elapsed)

(***************************************************************************)
(* C20. In every state: an accepted cycle predicts every track by the      *)
(* batch time minus the last update time, which is never negative and is   *)
(* zero for a batch at the last update time.                               *)
(***************************************************************************)
C20_PredictByElapsedTime == []C20_PredictByElapsedTime_State

\* A cycle for a batch captured at the time of the last update, which is
\* not 0, has ended after predicting a track by 0.
C20_Witness ==
  /\ Accepted
  /\ Elapsed = 0
  /\ pre.tracker.m_last_update > 0
  /\ Len(TracksAtEntry) > 0
  /\ trace[1] = Event("predict", TracksAtEntry[1].id, 0)

\* A cycle has ended after predicting by a time other than 0.
C20_WitnessLater ==
  /\ Accepted
  /\ Elapsed > 0
  /\ Len(TracksAtEntry) > 0
  /\ trace[1] = Event("predict", TracksAtEntry[1].id, Elapsed)

(***************************************************************************)
(* The rotations of TransformOdometries as exact integer matrices: the     *)
(* identity, the half turn and the quarter turn about the z axis.          *)
(***************************************************************************)
ExactRotation(q) ==
  IF q = IdentityQuat THEN << <<1, 0, 0>>, <<0, 1, 0>>, <<0, 0, 1>> >>
  ELSE IF q = YawQuat THEN << <<-1, 0, 0>>, <<0, -1, 0>>, <<0, 0, 1>> >>
  ELSE << <<0, -1, 0>>, <<1, 0, 0>>, <<0, 0, 1>> >>

\* R * v + t
ExactPoint(odom, v) ==
  VecAdd(MatVec(ExactRotation(odom.pose.orientation), v), odom.pose.position)

\* R * cov * R^T
ExactCovariance(odom, cov) ==
  LET R == ExactRotation(odom.pose.orientation)
  IN  MatMul(MatMul(R, cov), Transpose(R))

\* R * linear + the linear velocity of the odometry
ExactLinear(odom, linear) ==
  VecAdd(MatVec(ExactRotation(odom.pose.orientation), linear), odom.twist_linear)

(***************************************************************************)
(* C21. transform changes the optional fields of a detection only when     *)
(* their flag is set: without has_position_covariance the covariance is as *)
(* it was, without has_twist the linear twist is as it was; with the flag  *)
(* the covariance is R * covariance * R^T, which the translation of the    *)
(* odometry does not enter, and the linear twist is R * linear plus the    *)
(* linear velocity of the odometry.  The angular twist and the two flags   *)
(* are never changed, and the centroid and every point of the polygon of   *)
(* every detection become R * p + t.                                       *)
(***************************************************************************)
C21_OptionalFieldsByFlag ==
  Transformed =>
     /\ Len(detections.objects) = Len(pre.detections.objects)
     /\ \A i \in 1..Len(pre.detections.objects) :
           LET before == pre.detections.objects[i]
               after == detections.objects[i]
           IN  /\ after.has_position_covariance = before.has_position_covariance
               /\ after.has_twist = before.has_twist
               /\ ~before.has_position_covariance =>
                     after.position_covariance = before.position_covariance
               /\ ~before.has_twist => after.linear = before.linear
               /\ before.has_position_covariance =>
                     after.position_covariance =
                        ExactCovariance(odometry, before.position_covariance)
               /\ before.has_twist =>
                     after.linear = ExactLinear(odometry, before.linear)
               /\ after.angular = before.angular
               /\ after.centroid_position = ExactPoint(odometry, before.centroid_position)
               /\ Len(after.polygon) = Len(before.polygon)
               /\ \A k \in 1..Len(before.polygon) :
                     after.polygon[k] = ExactPoint(odometry, before.polygon[k])

\* A quarter turn with a translation and a velocity was applied to a batch
\* with an object carrying both optional fields, which changed, and an
\* object carrying neither, whose covariance and twist stayed while its
\* centroid moved.
C21_Witness ==
  /\ Transformed
  /\ odometry.pose.orientation = QuarterYawQuat
  /\ odometry.pose.position # ZeroVec
  /\ odometry.twist_linear # ZeroVec
  /\ \E i, j \in 1..Len(detections.objects) :
        /\ pre.detections.objects[i].has_position_covariance
        /\ pre.detections.objects[i].has_twist
        /\ detections.objects[i].position_covariance #
              pre.detections.objects[i].position_covariance
        /\ detections.objects[i].linear # pre.detections.objects[i].linear
        /\ ~pre.detections.objects[j].has_position_covariance
        /\ ~pre.detections.objects[j].has_twist
        /\ detections.objects[j].position_covariance =
              pre.detections.objects[j].position_covariance
        /\ detections.objects[j].linear = pre.detections.objects[j].linear
        /\ detections.objects[j].centroid_position #
              pre.detections.objects[j].centroid_position

(***************************************************************************)
(* One detection cycle and one vision update on the same tracker, not      *)
(* serialized: where the detection cycle was when the vision update        *)
(* computed its association and when it applied it.                        *)
(***************************************************************************)
\* The rank of a position of update(detections, odometry): the number of the
\* stage it is about to run, the call being made once.
PositionRank(position) ==
  CASE position = "call" -> 0
    [] position = "transform" -> 1
    [] position = "predict" -> 2
    [] position = "associate" -> 3
    [] position = "update" -> 4
    [] position = "create" -> 5
    [] position = "prune" -> 6
    [] position = "build" -> 7
    [] position = "done" -> 8
    [] position = "idle" -> 9

VisionApplied == vision.applied /\ vpc \in {"add", "done", "undefined", "crashed"}

\* The detection cycle inserted its new tracks, or pruned, after the vision
\* association was computed and before it was applied.
CreateBetween ==
  /\ PositionRank(vision.entry_pc) <= PositionRank("create")
  /\ PositionRank("create") < PositionRank(vision.apply_pc)

PruneBetween ==
  /\ PositionRank(vision.entry_pc) <= PositionRank("prune")
  /\ PositionRank("prune") < PositionRank(vision.apply_pc)

\* No stage of the detection cycle ran between the two moments, and the
\* cycle was not in progress: the calls were made one after the other.
SerializedWindow ==
  vision.entry_pc = vision.apply_pc /\ vision.entry_pc \in {"call", "idle"}

\* The loop read track_assignments[i] for a track beyond its end.
IndexOutOfRange == Len(vision.before) > Len(vision.entry)

\* An index of the association named, when it was applied, another track
\* than the one it was computed for.
IndexNamesDifferentTrack ==
  \E i \in 1..Len(vision.before) :
     /\ i <= Len(vision.entry)
     /\ vassociation.track_assignments[i] # UNASSIGNED
     /\ vision.before[i].id # vision.entry[i].id

StaleApplication ==
  VisionApplied /\ (CreateBetween \/ PruneBetween)
                /\ (IndexOutOfRange \/ IndexNamesDifferentTrack)

(***************************************************************************)
(* C22. With the calls not serialized, the vision update can apply an      *)
(* association computed before the create or prune step of the detection   *)
(* cycle to the collection after it, with an index out of range or naming  *)
(* another track; that happens only when the create or prune step ran      *)
(* between the computation and the application, never when the calls were  *)
(* made one after the other.  An index is out of range only after a create *)
(* step and names another track only after a prune step in between; an     *)
(* out-of-range read is where the behaviour is undefined; otherwise the    *)
(* loop gives track i of the collection it finds the classification of the *)
(* ROI matched with index i, whichever track that now is.                  *)
(***************************************************************************)
C22_StaleOnlyWhenInterleaved ==
  /\ pc \notin {"call", "idle", "undefined", "crashed"} =>
        result.status \in {"Ok", "InvalidShape"}
  /\ VisionApplied =>
        /\ Len(vassociation.track_assignments) = Len(vision.entry)
        /\ SerializedWindow => ~(CreateBetween \/ PruneBetween)
        /\ ~(CreateBetween \/ PruneBetween) =>
              /\ Ids(vision.before) = Ids(vision.entry)
              /\ ~IndexOutOfRange
              /\ ~IndexNamesDifferentTrack
              /\ ~StaleApplication
        /\ IndexOutOfRange => CreateBetween
        /\ IndexNamesDifferentTrack => PruneBetween
        /\ IndexOutOfRange <=> vpc \in {"undefined", "crashed"}
        /\ ~IndexOutOfRange =>
              /\ Len(vision.after) = Len(vision.before)
              /\ \A i \in 1..Len(vision.before) :
                    vision.after[i] =
                       IF vassociation.track_assignments[i] # UNASSIGNED
                         THEN [vision.before[i] EXCEPT !.classification =
                                 rois.rois[vassociation.track_assignments[i]].classifications]
                         ELSE vision.before[i]

\* The detection cycle pruned the oldest track between the computation of
\* the vision association and its application: the ROI matched with the
\* first track classified the track that had been the second.
C22_Witness ==
  /\ StaleApplication
  /\ PruneBetween
  /\ ~IndexOutOfRange
  /\ Len(vision.entry) = 2
  /\ vassociation.track_assignments[1] # UNASSIGNED
  /\ vision.before[1].id = vision.entry[2].id
  /\ vision.before[1].classification = "unknown"
  /\ vision.after[1].classification = "car"

\* The detection cycle inserted a new track in between: the loop read
\* track_assignments beyond its end.
C22_WitnessOutOfRange ==
  /\ StaleApplication
  /\ CreateBetween
  /\ IndexOutOfRange
  /\ vpc = "undefined"
  /\ \E i \in 1..Len(vision.after) : vision.after[i].classification = "garbage"

\* The vision update was made after the detection cycle had returned, having
\* created a track and pruned one: its indices name the tracks they were
\* computed for.
C22_WitnessSerialized ==
  /\ VisionApplied
  /\ SerializedWindow
  /\ vision.entry_pc = "idle"
  /\ Len(vision.entry) > 0
  /\ Ids(vision.entry) # Ids(pre.tracker.m_objects)
  /\ \E i \in 1..Len(vision.entry) :
        /\ vassociation.track_assignments[i] # UNASSIGNED
        /\ vision.after[i].id = vision.entry[i].id
        /\ vision.after[i].classification = "car"

====
